---- MODULE Spec2Model ----
(***************************************************************************)
(* Model of scrape_cp (src/main.go): two concurrent scrape tasks merge     *)
(* their extracted term -> definition maps into the shared map             *)
(* globalTerms under one mutex; main joins them, writes a JSON snapshot    *)
(* and then serves three read-only HTTP handlers over the same map.        *)
(*                                                                         *)
(* A Go string is modelled as the sequence of its runes (code points);     *)
(* len(s) is the number of UTF-8 bytes, as in Go.                          *)
(***************************************************************************)
EXTENDS Integers, Sequences, FiniteSets, TLC

VARIABLES
    globalTerms,  \* the shared map: a function from a set of terms to definitions
    mutex,        \* sync.Mutex state: TRUE when locked
    wg,           \* sync.WaitGroup counter of main
    mpc,          \* position of main
    mi,           \* main: number of sources the launch loop has gone through
    jsonData,     \* main: result of json.MarshalIndent (the object it denotes)
    snapshot,     \* content of the output file (meaningful once writes > 0)
    writes,       \* number of os.WriteFile calls that wrote the file
    launched,     \* per source: number of go statements executed for it
    tpc,          \* per task: position in scrapeURL
    terms,        \* per task: local map returned by scrapeFunc
    todo,         \* per task: keys the range loop has not visited yet
    outcome,      \* per task: the exit path it is returning by ("none" otherwise)
    dones,        \* per task: number of wg.Done calls
    hpc,          \* per request handler: position
    hkey,         \* per request handler: path variable or query parameter
    hres,         \* per request handler: local result map
    htodo,        \* per request handler: keys its range loop has not visited
    vterm,        \* validator run: the term argument
    vdef,         \* validator run: the definition argument
    vres,         \* validator run: "none" or the returned boolean
    craw,         \* normalizer run: the raw text
    couts,        \* normalizer run: results of cleanText, then of cleanText on that
    rglossary,    \* merge run: the map merged into
    rpairs,       \* merge run: the local map merged
    rcount,       \* merge run: number of times rpairs has been merged
    rfirst,       \* merge run: the map as it was after the first merge
    edoc,         \* extractor run: the dl.glossary lists of the document
    elist,        \* extractor run: index of the list being walked
    eelem,        \* extractor run: number of children of it already visited
    currentTerm,  \* extractor run: currentTerm of the list being walked
    eterms        \* extractor run: the terms map being filled

progVars == <<globalTerms, mutex, wg, mpc, mi, jsonData, snapshot, writes,
              launched, tpc, terms, todo, outcome, dones,
              hpc, hkey, hres, htodo>>
validVars == <<vterm, vdef, vres>>
cleanVars == <<craw, couts>>
mergeVars == <<rglossary, rpairs, rcount, rfirst>>
extractVars == <<edoc, elist, eelem, currentTerm, eterms>>
pureVars == <<validVars, cleanVars, mergeVars, extractVars>>
vars == <<progVars, pureVars>>

----------------------------------------------------------------------------
(* Bounds of the model *)

\* definitions are a 10-byte base followed by 0..MaxExtra more runes
MaxExtra == 1
\* number of concurrently running request handlers
MaxReq == 2
\* validator inputs: runes in a term
MaxTermLen == 3
\* validator inputs: runes in the varying head of a definition
MaxHeadLen == 2
\* validator inputs: filler runes after the head of a definition
MaxFill == 24
\* normalizer inputs: runes in a raw text
MaxRawLen == 4
\* glossary pages of the extractor runs have up to MaxDocLen tags
MaxDocLen == 5

----------------------------------------------------------------------------
(* Strings *)

\* utf8.RuneLen: bytes of the UTF-8 encoding of rune r
RuneLen(r) == IF r < 128 THEN 1 ELSE IF r < 2048 THEN 2 ELSE IF r < 65536 THEN 3 ELSE 4

\* Go's len(s): the number of bytes of s
RECURSIVE ByteLen(_)
ByteLen(s) == IF s = <<>> THEN 0 ELSE RuneLen(Head(s)) + ByteLen(Tail(s))

\* unicode.ToLower on the runes the model uses: ASCII and Latin-1 capitals
ToLowerRune(r) ==
    IF r >= 65 /\ r <= 90 THEN r + 32
    ELSE IF r >= 192 /\ r <= 222 /\ r # 215 THEN r + 32
    ELSE r

\* strings.ToLower
ToLower(s) == [i \in 1..Len(s) |-> ToLowerRune(s[i])]

\* sub occurs in s after the first i runes
HasAt(s, sub, i) ==
    /\ i + Len(sub) <= Len(s)
    /\ SubSeq(s, i + 1, i + Len(sub)) = sub

\* strings.Index, counted in runes: the first place sub occurs in s, or -1.
\* (Go counts bytes; the slice s[:i] taken at it is the same prefix.)
Index(s, sub) ==
    IF \E i \in 0..Len(s) : HasAt(s, sub, i)
    THEN CHOOSE i \in 0..Len(s) :
            /\ HasAt(s, sub, i)
            /\ \A j \in 0..(i - 1) : ~HasAt(s, sub, j)
    ELSE -1

\* strings.Contains
Contains(s, sub) == Index(s, sub) # -1

\* n copies of rune r
Rep(r, n) == [i \in 1..n |-> r]

----------------------------------------------------------------------------
(* Text Normalizer *)

\* unicode.IsSpace: the Latin-1 white space and the Unicode space separators
IsSpace(r) ==
    \/ r \in {9, 10, 11, 12, 13, 32, 133, 160}
    \/ r = 5760
    \/ r >= 8192 /\ r <= 8202
    \/ r \in {8232, 8233, 8239, 8287, 12288}

\* unicode.IsPrint on the runes the model uses: in Latin-1 the graphic
\* characters and the ASCII space; beyond it everything but the separators
\* and format characters of U+2000..U+206F, U+3000 and U+FEFF
IsPrint(r) ==
    IF r <= 255
    THEN \/ r >= 32 /\ r <= 126
         \/ r >= 161 /\ r # 173
    ELSE /\ ~IsSpace(r)
         /\ ~(r >= 8203 /\ r <= 8207)
         /\ ~(r >= 8234 /\ r <= 8238)
         /\ ~(r >= 8288 /\ r <= 8303)
         /\ r # 65279

\* the number of runes before the first one of s that is (sp = TRUE) or is
\* not (sp = FALSE) white space; Len(s) if there is none
RunLen(s, sp) ==
    LET stops == {i \in 1..Len(s) : IsSpace(s[i]) = sp}
    IN  IF stops = {} THEN Len(s)
        ELSE (CHOOSE i \in stops : \A j \in stops : i <= j) - 1

\* strings.Fields: the maximal runs of runes that are not white space
RECURSIVE Fields(_)
Fields(s) ==
    LET t == SubSeq(s, RunLen(s, FALSE) + 1, Len(s))
        n == RunLen(t, TRUE)
    IN  IF t = <<>> THEN <<>>
        ELSE <<SubSeq(t, 1, n)>> \o Fields(SubSeq(t, n + 1, Len(t)))

\* strings.Join
RECURSIVE Join(_, _)
Join(elems, sep) ==
    IF elems = <<>> THEN <<>>
    ELSE IF Len(elems) = 1 THEN elems[1]
    ELSE elems[1] \o sep \o Join(Tail(elems), sep)

\* cleanText: Fields and Join with one space, then the runes that are not
\* printable are dropped
cleanText(text) == SelectSeq(Join(Fields(text), <<32>>), IsPrint)

----------------------------------------------------------------------------
(* Term Validator *)

MinTermLen == 2
MinDefLen == 10
RestateMargin == 20

\* the " (" separator: space, opening parenthesis
ParenSep == <<32, 40>>

\* termForComparison of isValidTerm
TermForComparison(term) ==
    LET i == Index(term, ParenSep)
    IN  IF i # -1 THEN SubSeq(term, 1, i) ELSE term

\* variant of isValidTerm: <= for < in the restatement test
isValidTermOffByOne(term, definition) ==
    IF ByteLen(term) < MinTermLen \/ ByteLen(definition) < MinDefLen
    THEN FALSE
    ELSE LET key == TermForComparison(term)
         IN  IF /\ Contains(ToLower(definition), ToLower(key))
                /\ ByteLen(definition) <= ByteLen(key) + RestateMargin
             THEN FALSE
             ELSE TRUE

isValidTerm(term, definition) ==
    IF ByteLen(term) < MinTermLen \/ ByteLen(definition) < MinDefLen
    THEN FALSE
    ELSE LET key == TermForComparison(term)
         IN  IF /\ Contains(ToLower(definition), ToLower(key))
                /\ ByteLen(definition) < ByteLen(key) + RestateMargin
             THEN FALSE
             ELSE TRUE

----------------------------------------------------------------------------
(* Source Extractors *)

EmptyMap == [t \in {} |-> <<>>]

\* m[k] = v
Put(m, k, v) == [x \in DOMAIN m \cup {k} |-> IF x = k THEN v ELSE m[x]]

\* strings.TrimSpace
TrimSpace(s) ==
    LET a == RunLen(s, FALSE)
        keep == {i \in (a + 1)..Len(s) : ~IsSpace(s[i])}
    IN  IF keep = {} THEN <<>>
        ELSE SubSeq(s, a + 1, CHOOSE i \in keep : \A j \in keep : j <= i)

\* strings.Split(s, "[")[0]
BeforeBracket(s) ==
    LET i == Index(s, <<91>>)
    IN  IF i = -1 THEN s ELSE SubSeq(s, 1, i)

\* the strings.Map call of scrapeWikipediaTerms: "[" and "]" are dropped
IsNoBracket(r) == r # 91 /\ r # 93
DropBrackets(s) == SelectSeq(s, IsNoBracket)

\* scrapeWikipediaTerms, the dt branch: the new currentTerm
WikiTerm(text) == TrimSpace(BeforeBracket(cleanText(text)))

\* scrapeWikipediaTerms, the dd branch: the definition
WikiDef(text) == TrimSpace(BeforeBracket(DropBrackets(cleanText(text))))

\* variant of WikiElement: the pair is stored without the validity test
WikiElementUnchecked(st, el) ==
    IF el.tag = "dt"
    THEN [cur |-> WikiTerm(el.text), terms |-> st.terms]
    ELSE IF el.tag = "dd" /\ st.cur # <<>>
    THEN [cur |-> st.cur, terms |-> Put(st.terms, st.cur, WikiDef(el.text))]
    ELSE st

\* scrapeWikipediaTerms, the inner callback on one child el of a list, with
\* st.cur the currentTerm of the list and st.terms the map being filled
WikiElement(st, el) ==
    IF el.tag = "dt"
    THEN [cur |-> WikiTerm(el.text), terms |-> st.terms]
    ELSE IF el.tag = "dd" /\ st.cur # <<>>
    THEN LET definition == WikiDef(el.text)
         IN  IF isValidTerm(st.cur, definition)
             THEN [cur |-> st.cur, terms |-> Put(st.terms, st.cur, definition)]
             ELSE st
    ELSE st

\* the inner callback over the first n children of a list, currentTerm
\* starting empty
RECURSIVE WikiChildren(_, _, _)
WikiChildren(terms0, list, n) ==
    IF n = 0 THEN [cur |-> <<>>, terms |-> terms0]
    ELSE WikiElement(WikiChildren(terms0, list, n - 1), list[n])

\* the outer callback over the first n lists of the document
RECURSIVE WikiLists(_, _)
WikiLists(doc, n) ==
    IF n = 0 THEN EmptyMap
    ELSE WikiChildren(WikiLists(doc, n - 1), doc[n], Len(doc[n])).terms

\* scrapeWikipediaTerms on a document given as its dl.glossary lists, each
\* the sequence of its children [tag, text]
scrapeWikipediaTerms(doc) == WikiLists(doc, Len(doc))

\* scrapeCourseraTerms, the callback on the k-th block of the document: for
\* a p with a strong inside and a next sibling, the text of the sibling is
\* the definition
CourseraBlock(terms0, doc, k) ==
    IF doc[k].isP /\ doc[k].hasStrong /\ k < Len(doc)
    THEN LET term == cleanText(doc[k].strong)
             definition == cleanText(doc[k + 1].text)
         IN  IF isValidTerm(term, definition) THEN Put(terms0, term, definition)
             ELSE terms0
    ELSE terms0

RECURSIVE CourseraBlocks(_, _)
CourseraBlocks(doc, n) ==
    IF n = 0 THEN EmptyMap
    ELSE CourseraBlock(CourseraBlocks(doc, n - 1), doc, n)

\* scrapeCourseraTerms on a document given as its sibling blocks
\* [isP, hasStrong, strong, text]
scrapeCourseraTerms(doc) == CourseraBlocks(doc, Len(doc))

----------------------------------------------------------------------------
(* Data of the program runs *)

\* len(sources)
NumSources == 2
Sources == 1..NumSources
Handlers == 1..MaxReq

\* "API" and "Go"
TermAPI == <<65, 80, 73>>
TermGo == <<71, 111>>
Terms == {TermAPI, TermGo}

\* definitions the documents may hold: runs of "x" (1 byte each) from 10
\* bytes on, and runs of "e-acute" (U+00E9, 2 bytes each) from 10 bytes on
Defs == {Rep(120, 10 + n) : n \in 0..MaxExtra} \cup {Rep(233, 5 + n) : n \in 0..MaxExtra}

\* path variables of GET /api/terms/{term}: "API", and "api" (never a key)
LookupKeys == {TermAPI, <<97, 112, 105>>}

\* q parameters of GET /api/terms/search: "", "Ap", "X"
Queries == {<<>>, <<65, 112>>, <<88>>}

\* bodies no term of Terms is stored with: nine "x", and "go api xxxx"
BadDefs == {Rep(120, 9), <<103, 111, 32, 97, 112, 105, 32>> \o Rep(120, 4)}

\* what the pages hold for the terms: a body for each, or none (<<>>)
Candidates == [Terms -> Defs \cup BadDefs \cup {<<>>}]

\* a glossary page of one list: per term " term[1]" as dt and, if it has a
\* body, "\n body " as dd
WikiEntry(t, body) ==
    <<[tag |-> "dt", text |-> <<32>> \o t \o <<91, 49, 93>>]>> \o
    (IF body = <<>> THEN <<>>
     ELSE <<[tag |-> "dd", text |-> <<10>> \o body \o <<32>>]>>)
WikiDoc(c) == <<WikiEntry(TermAPI, c[TermAPI]) \o WikiEntry(TermGo, c[TermGo])>>

\* an article: per term a p holding "term\n" in a strong and, if it has a
\* body, a p " body" after it
CourseraEntry(t, body) ==
    <<[isP |-> TRUE, hasStrong |-> TRUE, strong |-> t \o <<10>>,
       text |-> t \o <<10>>]>> \o
    (IF body = <<>> THEN <<>>
     ELSE <<[isP |-> TRUE, hasStrong |-> FALSE, strong |-> <<>>,
             text |-> <<32>> \o body]>>)
CourseraDoc(c) == CourseraEntry(TermAPI, c[TermAPI]) \o CourseraEntry(TermGo, c[TermGo])

\* source.ScrapeFunc of sources[i-1] on the page the source serves for c
ScrapeFunc(i, c) ==
    IF i = 1 THEN scrapeCourseraTerms(CourseraDoc(c))
    ELSE scrapeWikipediaTerms(WikiDoc(c))

\* what scrapeFunc returns, per source: <<i, the map returned for a page>>
Scraped == {<<i, ScrapeFunc(i, c)>> : i \in Sources, c \in Candidates}

\* what an extractor can return
PairSets == {ScrapeFunc(i, c) : i \in Sources, c \in Candidates}

----------------------------------------------------------------------------
(* The merge rule of scrapeURL *)

\* variant of MergeOne: a present term gets the new definition added to its own
MergeOneAppend(g, term, def) ==
    IF term \notin DOMAIN g THEN Put(g, term, def) ELSE Put(g, term, g[term] \o def)

\* variant of MergeOne: the last pair always wins
MergeOneOverwrite(g, term, def) == Put(g, term, def)

\* variant of MergeOne: < for > in the length comparison
MergeOneShorter(g, term, def) ==
    IF term \notin DOMAIN g \/ ByteLen(def) < ByteLen(g[term])
    THEN Put(g, term, def)
    ELSE g

\* body of the range loop: one (term, def) pair against the shared map g
MergeOne(g, term, def) ==
    IF term \notin DOMAIN g \/ ByteLen(def) > ByteLen(g[term])
    THEN Put(g, term, def)
    ELSE g

\* the whole range loop over the local map m (its keys are distinct, so the
\* order in which the loop visits them does not show in the result)
RECURSIVE MergeAll(_, _)
MergeAll(g, m) ==
    IF DOMAIN m = {} THEN g
    ELSE LET t == CHOOSE x \in DOMAIN m : TRUE
         IN  MergeAll(MergeOne(g, t, m[t]), [x \in DOMAIN m \ {t} |-> m[x]])

----------------------------------------------------------------------------
(* Initial state *)

InitProg ==
    /\ globalTerms = EmptyMap
    /\ mutex = FALSE
    /\ wg = 0
    /\ mpc = "launch"
    /\ mi = 0
    /\ jsonData = EmptyMap
    /\ snapshot = EmptyMap
    /\ writes = 0
    /\ launched = [i \in Sources |-> 0]
    /\ tpc = [i \in Sources |-> "idle"]
    /\ terms = [i \in Sources |-> EmptyMap]
    /\ todo = [i \in Sources |-> {}]
    /\ outcome = [i \in Sources |-> "none"]
    /\ dones = [i \in Sources |-> 0]
    /\ hpc = [h \in Handlers |-> "idle"]
    /\ hkey = [h \in Handlers |-> <<>>]
    /\ hres = [h \in Handlers |-> EmptyMap]
    /\ htodo = [h \in Handlers |-> {}]

InitValidIdle ==
    /\ vterm = <<>>
    /\ vdef = <<>>
    /\ vres = "none"

InitCleanIdle ==
    /\ craw = <<>>
    /\ couts = <<>>

InitMergeIdle ==
    /\ rglossary = EmptyMap
    /\ rpairs = EmptyMap
    /\ rcount = 0
    /\ rfirst = EmptyMap

InitExtractIdle ==
    /\ edoc = <<>>
    /\ elist = 0
    /\ eelem = 0
    /\ currentTerm = <<>>
    /\ eterms = EmptyMap

Init == InitProg /\ InitValidIdle /\ InitCleanIdle /\ InitMergeIdle /\ InitExtractIdle

mainVars == <<mpc, mi, jsonData, snapshot, writes>>
taskVars == <<tpc, terms, todo, outcome, dones>>
reqVars == <<hpc, hkey, hres, htodo>>

----------------------------------------------------------------------------
(* main *)

\* one iteration of the launch loop: wg.Add(1); go scrapeURL(...)
Launch ==
    /\ mpc = "launch"
    /\ mi < NumSources
    /\ wg' = wg + 1
    /\ launched' = [launched EXCEPT ![mi + 1] = @ + 1]
    /\ tpc' = [tpc EXCEPT ![mi + 1] = "newreq"]
    /\ mi' = mi + 1
    /\ mpc' = IF mi + 1 = NumSources THEN "wait" ELSE "launch"
    /\ UNCHANGED <<globalTerms, mutex, jsonData, snapshot, writes,
                   terms, todo, outcome, dones, reqVars, pureVars>>

\* variant of Wait: returns without waiting for the counter
WaitNoJoin ==
    /\ mpc = "wait"
    /\ mpc' = "check"
    /\ UNCHANGED <<globalTerms, mutex, wg, mi, jsonData, snapshot, writes,
                   launched, taskVars, reqVars, pureVars>>

\* wg.Wait() returns once the counter is zero
Wait ==
    /\ mpc = "wait"
    /\ wg = 0
    /\ mpc' = "check"
    /\ UNCHANGED <<globalTerms, mutex, wg, mi, jsonData, snapshot, writes,
                   launched, taskVars, reqVars, pureVars>>

\* variant of CheckEmpty: the check is left out
CheckEmptySkipped ==
    /\ mpc = "check"
    /\ mpc' = "marshal"
    /\ UNCHANGED <<globalTerms, mutex, wg, mi, jsonData, snapshot, writes,
                   launched, taskVars, reqVars, pureVars>>

\* if len(globalTerms) == 0 { log.Fatal(...) }
CheckEmpty ==
    /\ mpc = "check"
    /\ mpc' = IF Cardinality(DOMAIN globalTerms) = 0 THEN "fatal_empty" ELSE "marshal"
    /\ UNCHANGED <<globalTerms, mutex, wg, mi, jsonData, snapshot, writes,
                   launched, taskVars, reqVars, pureVars>>

\* json.MarshalIndent(globalTerms, ...): a JSON object is modelled as the
\* mapping it denotes
Marshal ==
    /\ mpc = "marshal"
    /\ jsonData' = globalTerms
    /\ mpc' = "write"
    /\ UNCHANGED <<globalTerms, mutex, wg, mi, snapshot, writes,
                   launched, taskVars, reqVars, pureVars>>

\* err != nil after MarshalIndent: log.Fatal
MarshalFail ==
    /\ mpc = "marshal"
    /\ mpc' = "fatal_marshal"
    /\ UNCHANGED <<globalTerms, mutex, wg, mi, jsonData, snapshot, writes,
                   launched, taskVars, reqVars, pureVars>>

\* os.WriteFile(filename, jsonData, 0644) succeeds
WriteFile ==
    /\ mpc = "write"
    /\ snapshot' = jsonData
    /\ writes' = writes + 1
    /\ mpc' = "startapi"
    /\ UNCHANGED <<globalTerms, mutex, wg, mi, jsonData,
                   launched, taskVars, reqVars, pureVars>>

\* variant of WriteFail: the error is not fatal
WriteFailIgnored ==
    /\ mpc = "write"
    /\ mpc' = "startapi"
    /\ UNCHANGED <<globalTerms, mutex, wg, mi, jsonData, snapshot, writes,
                   launched, taskVars, reqVars, pureVars>>

\* err != nil after os.WriteFile: log.Fatal
WriteFail ==
    /\ mpc = "write"
    /\ mpc' = "fatal_write"
    /\ UNCHANGED <<globalTerms, mutex, wg, mi, jsonData, snapshot, writes,
                   launched, taskVars, reqVars, pureVars>>

\* startAPIServer: routes registered, http.ListenAndServe is serving
StartAPIServer ==
    /\ mpc = "startapi"
    /\ mpc' = "serving"
    /\ UNCHANGED <<globalTerms, mutex, wg, mi, jsonData, snapshot, writes,
                   launched, taskVars, reqVars, pureVars>>

\* http.ListenAndServe returns an error at once: log.Fatal
ListenFail ==
    /\ mpc = "startapi"
    /\ mpc' = "fatal_listen"
    /\ UNCHANGED <<globalTerms, mutex, wg, mi, jsonData, snapshot, writes,
                   launched, taskVars, reqVars, pureVars>>

----------------------------------------------------------------------------
(* scrapeURL, one task per source *)

\* variant of Abort: the task ends without its deferred wg.Done()
AbortNoDone(i, why) ==
    /\ tpc' = [tpc EXCEPT ![i] = "done"]
    /\ outcome' = outcome

\* a return before the merge: the task keeps no pairs
Abort(i, why) ==
    /\ tpc' = [tpc EXCEPT ![i] = "ret"]
    /\ outcome' = [outcome EXCEPT ![i] = why]

\* http.NewRequest succeeds
NewRequest(i) ==
    /\ tpc[i] = "newreq"
    /\ tpc' = [tpc EXCEPT ![i] = "do"]
    /\ UNCHANGED <<globalTerms, mutex, wg, mainVars, launched,
                   terms, todo, outcome, dones, reqVars, pureVars>>

\* http.NewRequest fails: log and return
NewRequestFail(i) ==
    /\ tpc[i] = "newreq"
    /\ Abort(i, "reqerr")
    /\ UNCHANGED <<globalTerms, mutex, wg, mainVars, launched,
                   terms, todo, dones, reqVars, pureVars>>

\* client.Do succeeds
Do(i) ==
    /\ tpc[i] = "do"
    /\ tpc' = [tpc EXCEPT ![i] = "status"]
    /\ UNCHANGED <<globalTerms, mutex, wg, mainVars, launched,
                   terms, todo, outcome, dones, reqVars, pureVars>>

\* client.Do fails (transport error or the 30 s timeout): log and return
DoFail(i) ==
    /\ tpc[i] = "do"
    /\ Abort(i, "neterr")
    /\ UNCHANGED <<globalTerms, mutex, wg, mainVars, launched,
                   terms, todo, dones, reqVars, pureVars>>

\* resp.StatusCode == http.StatusOK
StatusOK(i) ==
    /\ tpc[i] = "status"
    /\ tpc' = [tpc EXCEPT ![i] = "parse"]
    /\ UNCHANGED <<globalTerms, mutex, wg, mainVars, launched,
                   terms, todo, outcome, dones, reqVars, pureVars>>

\* variant of BadStatus: logs and goes on
BadStatusNoReturn(i) ==
    /\ tpc[i] = "status"
    /\ tpc' = [tpc EXCEPT ![i] = "parse"]
    /\ outcome' = [outcome EXCEPT ![i] = "status"]
    /\ UNCHANGED <<globalTerms, mutex, wg, mainVars, launched,
                   terms, todo, dones, reqVars, pureVars>>

\* resp.StatusCode != http.StatusOK: log and return
BadStatus(i) ==
    /\ tpc[i] = "status"
    /\ Abort(i, "status")
    /\ UNCHANGED <<globalTerms, mutex, wg, mainVars, launched,
                   terms, todo, dones, reqVars, pureVars>>

\* goquery.NewDocumentFromReader succeeds
Parse(i) ==
    /\ tpc[i] = "parse"
    /\ tpc' = [tpc EXCEPT ![i] = "extract"]
    /\ UNCHANGED <<globalTerms, mutex, wg, mainVars, launched,
                   terms, todo, outcome, dones, reqVars, pureVars>>

\* goquery.NewDocumentFromReader fails: log and return
ParseFail(i) ==
    /\ tpc[i] = "parse"
    /\ Abort(i, "parse")
    /\ UNCHANGED <<globalTerms, mutex, wg, mainVars, launched,
                   terms, todo, dones, reqVars, pureVars>>

\* terms := scrapeFunc(doc)
Extract(i) ==
    /\ tpc[i] = "extract"
    /\ \E s \in Scraped : s[1] = i /\ terms' = [terms EXCEPT ![i] = s[2]]
    /\ tpc' = [tpc EXCEPT ![i] = "lock"]
    /\ UNCHANGED <<globalTerms, mutex, wg, mainVars, launched,
                   todo, outcome, dones, reqVars, pureVars>>

\* variant of Lock: does not wait for the mutex to be free
LockNoWait(i) ==
    /\ tpc[i] = "lock"
    /\ mutex' = TRUE
    /\ todo' = [todo EXCEPT ![i] = DOMAIN terms[i]]
    /\ tpc' = [tpc EXCEPT ![i] = "merge"]
    /\ UNCHANGED <<globalTerms, wg, mainVars, launched,
                   terms, outcome, dones, reqVars, pureVars>>

\* mutex.Lock(), then the range loop starts over the keys of terms
Lock(i) ==
    /\ tpc[i] = "lock"
    /\ ~mutex
    /\ mutex' = TRUE
    /\ todo' = [todo EXCEPT ![i] = DOMAIN terms[i]]
    /\ tpc' = [tpc EXCEPT ![i] = "merge"]
    /\ UNCHANGED <<globalTerms, wg, mainVars, launched,
                   terms, outcome, dones, reqVars, pureVars>>

\* one iteration of the range loop, over any key not yet visited
MergeStep(i) ==
    /\ tpc[i] = "merge"
    /\ \E t \in todo[i] :
        /\ globalTerms' = MergeOne(globalTerms, t, terms[i][t])
        /\ todo' = [todo EXCEPT ![i] = @ \ {t}]
    /\ UNCHANGED <<mutex, wg, mainVars, launched,
                   tpc, terms, outcome, dones, reqVars, pureVars>>

\* the range loop is over: mutex.Unlock()
Unlock(i) ==
    /\ tpc[i] = "merge"
    /\ todo[i] = {}
    /\ mutex' = FALSE
    /\ tpc' = [tpc EXCEPT ![i] = "ret"]
    /\ outcome' = [outcome EXCEPT ![i] = "ok"]
    /\ UNCHANGED <<globalTerms, wg, mainVars, launched,
                   terms, todo, dones, reqVars, pureVars>>

\* the function returns: the deferred wg.Done() runs, the locals are gone
Return(i) ==
    /\ tpc[i] = "ret"
    /\ wg' = wg - 1
    /\ dones' = [dones EXCEPT ![i] = @ + 1]
    /\ terms' = [terms EXCEPT ![i] = EmptyMap]
    /\ outcome' = [outcome EXCEPT ![i] = "none"]
    /\ tpc' = [tpc EXCEPT ![i] = "done"]
    /\ UNCHANGED <<globalTerms, mutex, mainVars, launched,
                   todo, reqVars, pureVars>>

----------------------------------------------------------------------------
(* The request handlers; the server runs each request in its own goroutine *)

\* the request is answered and its goroutine ends
Answered(h) ==
    /\ hpc' = [hpc EXCEPT ![h] = "idle"]
    /\ hkey' = [hkey EXCEPT ![h] = <<>>]
    /\ hres' = [hres EXCEPT ![h] = EmptyMap]

\* GET /api/terms arrives
GetAllStart(h) ==
    /\ mpc = "serving"
    /\ hpc[h] = "idle"
    /\ hpc' = [hpc EXCEPT ![h] = "ga_lock"]
    /\ UNCHANGED <<globalTerms, mutex, wg, mainVars, launched, taskVars,
                   hkey, hres, htodo, pureVars>>

\* getAllTerms: mutex.Lock(); terms := make(map[string]string); range starts
GetAllLock(h) ==
    /\ hpc[h] = "ga_lock"
    /\ ~mutex
    /\ mutex' = TRUE
    /\ hres' = [hres EXCEPT ![h] = EmptyMap]
    /\ htodo' = [htodo EXCEPT ![h] = DOMAIN globalTerms]
    /\ hpc' = [hpc EXCEPT ![h] = "ga_copy"]
    /\ UNCHANGED <<globalTerms, wg, mainVars, launched, taskVars, hkey, pureVars>>

\* getAllTerms: one iteration of the copy loop
GetAllCopy(h) ==
    /\ hpc[h] = "ga_copy"
    /\ \E k \in htodo[h] :
        /\ hres' = [hres EXCEPT ![h] = Put(@, k, globalTerms[k])]
        /\ htodo' = [htodo EXCEPT ![h] = @ \ {k}]
    /\ UNCHANGED <<globalTerms, mutex, wg, mainVars, launched, taskVars,
                   hpc, hkey, pureVars>>

\* getAllTerms: the copy is complete, mutex.Unlock()
GetAllUnlock(h) ==
    /\ hpc[h] = "ga_copy"
    /\ htodo[h] = {}
    /\ mutex' = FALSE
    /\ hpc' = [hpc EXCEPT ![h] = "ga_encode"]
    /\ UNCHANGED <<globalTerms, wg, mainVars, launched, taskVars,
                   hkey, hres, htodo, pureVars>>

\* getAllTerms: 200 with the copy hres[h] as the JSON object
GetAllEncode(h) ==
    /\ hpc[h] = "ga_encode"
    /\ Answered(h)
    /\ UNCHANGED <<globalTerms, mutex, wg, mainVars, launched, taskVars,
                   htodo, pureVars>>

\* GET /api/terms/{term} arrives; term := vars["term"]
GetTermStart(h) ==
    /\ mpc = "serving"
    /\ hpc[h] = "idle"
    /\ \E k \in LookupKeys : hkey' = [hkey EXCEPT ![h] = k]
    /\ hpc' = [hpc EXCEPT ![h] = "gt_lock"]
    /\ UNCHANGED <<globalTerms, mutex, wg, mainVars, launched, taskVars,
                   hres, htodo, pureVars>>

\* getTerm: mutex.Lock()
GetTermLock(h) ==
    /\ hpc[h] = "gt_lock"
    /\ ~mutex
    /\ mutex' = TRUE
    /\ hpc' = [hpc EXCEPT ![h] = "gt_read"]
    /\ UNCHANGED <<globalTerms, wg, mainVars, launched, taskVars,
                   hkey, hres, htodo, pureVars>>

\* variant of GetTermRead: the lookup inserts a missing key
GetTermReadInserting(h) ==
    /\ hpc[h] = "gt_read"
    /\ globalTerms' = IF hkey[h] \in DOMAIN globalTerms THEN globalTerms
                      ELSE Put(globalTerms, hkey[h], <<>>)
    /\ hres' = [hres EXCEPT ![h] = Put(EmptyMap, hkey[h], globalTerms'[hkey[h]])]
    /\ hpc' = [hpc EXCEPT ![h] = "gt_found"]
    /\ mutex' = FALSE
    /\ UNCHANGED <<wg, mainVars, launched, taskVars, hkey, htodo, pureVars>>

\* getTerm: definition, exists := globalTerms[term]; mutex.Unlock()
GetTermRead(h) ==
    /\ hpc[h] = "gt_read"
    /\ IF hkey[h] \in DOMAIN globalTerms
       THEN /\ hres' = [hres EXCEPT ![h] = Put(EmptyMap, hkey[h], globalTerms[hkey[h]])]
            /\ hpc' = [hpc EXCEPT ![h] = "gt_found"]
       ELSE /\ hres' = [hres EXCEPT ![h] = EmptyMap]
            /\ hpc' = [hpc EXCEPT ![h] = "gt_notfound"]
    /\ mutex' = FALSE
    /\ UNCHANGED <<globalTerms, wg, mainVars, launched, taskVars,
                   hkey, htodo, pureVars>>

\* getTerm: 404 {"error": "term not found"}
GetTermNotFound(h) ==
    /\ hpc[h] = "gt_notfound"
    /\ Answered(h)
    /\ UNCHANGED <<globalTerms, mutex, wg, mainVars, launched, taskVars,
                   htodo, pureVars>>

\* getTerm: 200 {term: definition}
GetTermFound(h) ==
    /\ hpc[h] = "gt_found"
    /\ Answered(h)
    /\ UNCHANGED <<globalTerms, mutex, wg, mainVars, launched, taskVars,
                   htodo, pureVars>>

\* variant of SearchStart: the empty query is not refused
SearchStartNoCheck(h) ==
    /\ mpc = "serving"
    /\ hpc[h] = "idle"
    /\ \E q \in Queries :
        /\ hkey' = [hkey EXCEPT ![h] = ToLower(q)]
        /\ hpc' = [hpc EXCEPT ![h] = "se_lock"]
    /\ UNCHANGED <<globalTerms, mutex, wg, mainVars, launched, taskVars,
                   hres, htodo, pureVars>>

\* GET /api/terms/search arrives; query := strings.ToLower(q); empty is a 400
SearchStart(h) ==
    /\ mpc = "serving"
    /\ hpc[h] = "idle"
    /\ \E q \in Queries :
        /\ hkey' = [hkey EXCEPT ![h] = ToLower(q)]
        /\ hpc' = [hpc EXCEPT ![h] = IF ToLower(q) = <<>> THEN "se_badreq" ELSE "se_lock"]
    /\ UNCHANGED <<globalTerms, mutex, wg, mainVars, launched, taskVars,
                   hres, htodo, pureVars>>

\* searchTerms: 400 {"error": "search query is required"}
SearchBadRequest(h) ==
    /\ hpc[h] = "se_badreq"
    /\ Answered(h)
    /\ UNCHANGED <<globalTerms, mutex, wg, mainVars, launched, taskVars,
                   htodo, pureVars>>

\* searchTerms: mutex.Lock(); results := make(map[string]string); range starts
SearchLock(h) ==
    /\ hpc[h] = "se_lock"
    /\ ~mutex
    /\ mutex' = TRUE
    /\ hres' = [hres EXCEPT ![h] = EmptyMap]
    /\ htodo' = [htodo EXCEPT ![h] = DOMAIN globalTerms]
    /\ hpc' = [hpc EXCEPT ![h] = "se_scan"]
    /\ UNCHANGED <<globalTerms, wg, mainVars, launched, taskVars, hkey, pureVars>>

\* variant of Matches: the definitions are not searched
MatchesTermOnly(term, def, query) == Contains(ToLower(term), query)

\* the condition of the search loop
Matches(term, def, query) ==
    \/ Contains(ToLower(term), query)
    \/ Contains(ToLower(def), query)

\* searchTerms: one iteration of the search loop
SearchScan(h) ==
    /\ hpc[h] = "se_scan"
    /\ \E k \in htodo[h] :
        /\ hres' = [hres EXCEPT ![h] =
                        IF Matches(k, globalTerms[k], hkey[h])
                        THEN Put(@, k, globalTerms[k]) ELSE @]
        /\ htodo' = [htodo EXCEPT ![h] = @ \ {k}]
    /\ UNCHANGED <<globalTerms, mutex, wg, mainVars, launched, taskVars,
                   hpc, hkey, pureVars>>

\* searchTerms: the loop is over, mutex.Unlock()
SearchUnlock(h) ==
    /\ hpc[h] = "se_scan"
    /\ htodo[h] = {}
    /\ mutex' = FALSE
    /\ hpc' = [hpc EXCEPT ![h] = "se_encode"]
    /\ UNCHANGED <<globalTerms, wg, mainVars, launched, taskVars,
                   hkey, hres, htodo, pureVars>>

\* searchTerms: 200 with results hres[h] as the JSON object
SearchEncode(h) ==
    /\ hpc[h] = "se_encode"
    /\ Answered(h)
    /\ UNCHANGED <<globalTerms, mutex, wg, mainVars, launched, taskVars,
                   htodo, pureVars>>

----------------------------------------------------------------------------
(* The program *)

MainStep ==
    \/ Launch
    \/ Wait
    \/ CheckEmpty
    \/ Marshal
    \/ MarshalFail
    \/ WriteFile
    \/ WriteFail
    \/ StartAPIServer
    \/ ListenFail

TaskStep(i) ==
    \/ NewRequest(i)
    \/ NewRequestFail(i)
    \/ Do(i)
    \/ DoFail(i)
    \/ StatusOK(i)
    \/ BadStatus(i)
    \/ Parse(i)
    \/ ParseFail(i)
    \/ Extract(i)
    \/ Lock(i)
    \/ MergeStep(i)
    \/ Unlock(i)
    \/ Return(i)

RequestStep(h) ==
    \/ GetAllStart(h)
    \/ GetAllLock(h)
    \/ GetAllCopy(h)
    \/ GetAllUnlock(h)
    \/ GetAllEncode(h)
    \/ GetTermStart(h)
    \/ GetTermLock(h)
    \/ GetTermRead(h)
    \/ GetTermNotFound(h)
    \/ GetTermFound(h)
    \/ SearchStart(h)
    \/ SearchBadRequest(h)
    \/ SearchLock(h)
    \/ SearchScan(h)
    \/ SearchUnlock(h)
    \/ SearchEncode(h)

Next ==
    \/ MainStep
    \/ \E i \in Sources : TaskStep(i)
    \/ \E h \in Handlers : RequestStep(h)

Spec == Init /\ [][Next]_vars

\* a handler doing a step after it has taken the mutex
HandlerRun(h) ==
    \/ GetAllCopy(h)
    \/ GetAllUnlock(h)
    \/ GetAllEncode(h)
    \/ GetTermRead(h)
    \/ GetTermNotFound(h)
    \/ GetTermFound(h)
    \/ SearchBadRequest(h)
    \/ SearchScan(h)
    \/ SearchUnlock(h)
    \/ SearchEncode(h)

\* the program under a fair scheduler: main and every goroutine that can
\* run does run (each fetch ends, by http.Client.Timeout at the latest);
\* requests need not arrive
SpecFair ==
    /\ Spec
    /\ WF_vars(MainStep)
    /\ \A i \in Sources : WF_vars(TaskStep(i))
    /\ \A h \in Handlers : WF_vars(HandlerRun(h))

----------------------------------------------------------------------------
(* Runs of the Term Validator alone *)

\* runes of the terms tried: "A", e-acute, space, "("
TermRunes == {65, 233, 32, 40}
\* runes of the head of the definitions tried: "a", "A", capital E-acute
HeadRunes == {97, 65, 201}
SeqsUpTo(S, n) == UNION {[1..k -> S] : k \in 0..n}

ValidatorTerms == SeqsUpTo(TermRunes, MaxTermLen)
\* a head followed by a run of the filler "x"
ValidatorDefs ==
    {head \o Rep(120, n) : head \in SeqsUpTo(HeadRunes, MaxHeadLen), n \in 0..MaxFill}

InitValid ==
    /\ InitProg
    /\ InitCleanIdle
    /\ InitMergeIdle
    /\ InitExtractIdle
    /\ vterm \in ValidatorTerms
    /\ vdef \in ValidatorDefs
    /\ vres = "none"

\* a call isValidTerm(vterm, vdef) returns
Validate ==
    /\ vres = "none"
    /\ vres' = IF isValidTerm(vterm, vdef) THEN "valid" ELSE "invalid"
    /\ UNCHANGED <<progVars, vterm, vdef, cleanVars, mergeVars, extractVars>>

NextValid == Validate

SpecValid == InitValid /\ [][NextValid]_vars

----------------------------------------------------------------------------
(* Claims about the merge *)

\* every task has reached the end of scrapeURL and has not returned yet, so
\* the maps the extractors returned are still at hand
AllMerged == \A i \in Sources : tpc[i] = "ret"

Failures == {"reqerr", "neterr", "status", "parse"}

\* the Glossary after merging a and then b into an empty one
MergedInOrder(a, b) == MergeAll(MergeAll(EmptyMap, a), b)

\* no term has two different definitions of the same length (in bytes)
NoTie(a, b) ==
    \A t \in DOMAIN a \cap DOMAIN b : a[t] # b[t] => ByteLen(a[t]) # ByteLen(b[t])

\* C1 as stated: whatever the two sources extracted and in whatever order
\* their tasks took the lock, the final Glossary is the one of merging the
\* first source's pairs and then the second's, and also the one of merging
\* them the other way round.
C1_MergeCommutative ==
    AllMerged =>
        /\ globalTerms = MergedInOrder(terms[1], terms[2])
        /\ globalTerms = MergedInOrder(terms[2], terms[1])

\* C1 amended: the same, for pair sets that do not give one term two
\* different definitions of equal length.
C1_MergeCommutativeNoTies ==
    (AllMerged /\ NoTie(terms[1], terms[2])) =>
        /\ globalTerms = MergedInOrder(terms[1], terms[2])
        /\ globalTerms = MergedInOrder(terms[2], terms[1])

C1_Witness ==
    /\ AllMerged
    /\ NoTie(terms[1], terms[2])
    /\ outcome = [i \in Sources |-> "ok"]
    /\ TermGo \in DOMAIN terms[1] \ DOMAIN terms[2]
    /\ TermAPI \in DOMAIN terms[1] \cap DOMAIN terms[2]
    /\ ByteLen(terms[1][TermAPI]) < ByteLen(terms[2][TermAPI])

\* C2: when both sources define a term with definitions of different
\* lengths (len, in bytes), then once both tasks have merged, whichever took
\* the lock first, the Glossary holds the longer of the two for that term.
C2_LongerWins ==
    AllMerged =>
        \A t \in DOMAIN terms[1] \cap DOMAIN terms[2] :
            /\ ByteLen(terms[1][t]) > ByteLen(terms[2][t]) => globalTerms[t] = terms[1][t]
            /\ ByteLen(terms[2][t]) > ByteLen(terms[1][t]) => globalTerms[t] = terms[2][t]

C2_Witness ==
    /\ AllMerged
    /\ TermAPI \in DOMAIN terms[1] \cap DOMAIN terms[2]
    /\ ByteLen(terms[1][TermAPI]) > ByteLen(terms[2][TermAPI])
    /\ globalTerms[TermAPI] = terms[1][TermAPI]

\* the merge of one pair as C3 states it: lengths are numbers of characters
MergeByCharCount(g, term, def) ==
    IF term \notin DOMAIN g THEN Put(g, term, def)
    ELSE IF Len(def) > Len(g[term]) THEN Put(g, term, def)
    ELSE g

\* C3: every iteration of a task's merge loop, for its pair (t, def), leaves
\* the Glossary as the stated rule gives it: t inserted when absent, replaced
\* exactly when def is strictly longer by character count, every other key
\* as it was.
C3_MergeByCharCount ==
    [][\A i \in Sources : \A t \in todo[i] :
          (tpc[i] = "merge" /\ todo'[i] = todo[i] \ {t})
              => globalTerms' = MergeByCharCount(globalTerms, t, terms[i][t])]_vars

----------------------------------------------------------------------------
(* Claims about the orchestration *)

AllDone == \A i \in Sources : tpc[i] = "done"
Serving == \E h \in Handlers : hpc[h] # "idle"
Joining == {"launch", "wait"}

\* C4: one task is launched per source, never more; and main is past
\* wg.Wait (at the emptiness check or beyond, a snapshot written, or a
\* request being served) only when every one of the tasks has returned.
C4_JoinBeforeCheck ==
    /\ \A i \in Sources : launched[i] <= 1 /\ dones[i] <= launched[i]
    /\ (mpc \notin Joining \/ writes > 0 \/ Serving) =>
           \A i \in Sources : launched[i] = 1 /\ dones[i] = 1 /\ tpc[i] = "done"

C4_Witness ==
    /\ mpc = "check"
    /\ AllDone
    /\ wg = 0
    /\ DOMAIN globalTerms = {TermAPI}

\* C5: past the emptiness check with an empty Glossary, main is in the
\* fatal state of that check, no snapshot has been written and no request
\* is served; a snapshot or a served request exist only with a Glossary
\* that is not empty.
C5_EmptyIsFatal ==
    /\ (mpc \notin Joining \cup {"check"} /\ DOMAIN globalTerms = {}) =>
           mpc = "fatal_empty"
    /\ mpc = "fatal_empty" =>
           AllDone /\ DOMAIN globalTerms = {} /\ writes = 0 /\ ~Serving
    /\ (writes > 0 \/ Serving \/ mpc \in {"startapi", "serving"}) =>
           DOMAIN globalTerms # {}

C5_Witness ==
    /\ mpc = "fatal_empty"
    /\ AllDone
    /\ globalTerms = EmptyMap
    /\ writes = 0

C7_ReadOnlyAfterJoin ==
    /\ [](\A h \in Handlers : hpc[h] = "ga_encode" => hres[h] = snapshot)
    /\ [][mpc \notin Joining => globalTerms' = globalTerms]_vars

C7_Witness ==
    /\ hpc[1] = "ga_encode"
    /\ hpc[2] = "gt_notfound"
    /\ DOMAIN hres[1] = Terms
    /\ hres[1] = snapshot
    /\ hres[1] = globalTerms

\* the tasks and requests that are at a place where they access the map
MergingTasks == {i \in Sources : tpc[i] = "merge"}
ReadingRequests == {h \in Handlers : hpc[h] \in {"ga_copy", "gt_read", "se_scan"}}

\* C8: at most one task or request is accessing the map, the mutex is
\* locked exactly while one is, and so it is released whenever a task is
\* returning or a request is writing its answer.
C8_MutualExclusion ==
    /\ Cardinality(MergingTasks) + Cardinality(ReadingRequests) <= 1
    /\ mutex <=> (MergingTasks # {} \/ ReadingRequests # {})

C8_Witness ==
    /\ tpc[1] = "merge"
    /\ todo[1] # {}
    /\ tpc[2] = "lock"
    /\ globalTerms # EmptyMap
    /\ mutex

C8_WitnessRequests ==
    /\ hpc[1] = "se_scan"
    /\ hpc[2] = "ga_lock"
    /\ mutex

\* C9: the API is started, and requests are served, only with the snapshot
\* written, exactly once, with the Glossary as its content; after a failed
\* serialization or write main is in a fatal state with no API.
C9_SnapshotBeforeAPI ==
    /\ writes <= 1
    /\ (mpc \in {"startapi", "serving", "fatal_listen"} \/ Serving) =>
           writes = 1 /\ snapshot = globalTerms
    /\ mpc \in {"fatal_marshal", "fatal_write"} => writes = 0 /\ ~Serving
    /\ Serving => mpc = "serving"

C9_Witness ==
    /\ mpc = "serving"
    /\ writes = 1
    /\ snapshot = globalTerms
    /\ Serving

----------------------------------------------------------------------------
(* Claims about the Term Validator *)

\* the term up to its first " (", or all of it
ComparisonKey(t) ==
    LET at == {i \in 1..(Len(t) - 1) : t[i] = 32 /\ t[i + 1] = 40}
    IN  IF at = {} THEN t
        ELSE LET first == CHOOSE i \in at : \A j \in at : i <= j
             IN  [k \in 1..(first - 1) |-> t[k]]

\* sub is a substring of s
Occurs(sub, s) ==
    \E i \in 0..(Len(s) - Len(sub)) : \A j \in 1..Len(sub) : s[i + j] = sub[j]

\* C10: a call of the validator returns true exactly when len(term) >= 2,
\* len(definition) >= 10 and not (the lowercase definition contains the
\* lowercase comparison key and len(definition) < len(key) + 20); len is
\* the validator's len, the number of bytes.
C10_ValidExactly ==
    vres # "none" =>
        (vres = "valid" <=>
            /\ ByteLen(vterm) >= 2
            /\ ByteLen(vdef) >= 10
            /\ ~(/\ Occurs(ToLower(ComparisonKey(vterm)), ToLower(vdef))
                 /\ ByteLen(vdef) < ByteLen(ComparisonKey(vterm)) + 20))

C10_Witness ==
    /\ vres = "valid"
    /\ Index(vterm, ParenSep) = 1
    /\ Contains(ToLower(vdef), ToLower(TermForComparison(vterm)))
    /\ ByteLen(vdef) = ByteLen(TermForComparison(vterm)) + 20

C10_WitnessRejected ==
    /\ vres = "invalid"
    /\ ByteLen(vterm) >= 2
    /\ Index(vterm, ParenSep) = 1
    /\ ByteLen(vdef) = ByteLen(TermForComparison(vterm)) + 19

----------------------------------------------------------------------------
(* Runs of the Text Normalizer alone *)

\* runes of the raw texts tried: "a", space, line feed, zero width space
CleanRunes == {97, 32, 10, 8203}

InitClean ==
    /\ InitProg
    /\ InitValidIdle
    /\ InitMergeIdle
    /\ InitExtractIdle
    /\ craw \in SeqsUpTo(CleanRunes, MaxRawLen)
    /\ couts = <<>>

\* cleanText is called on the raw text, then on what it returned
Clean ==
    /\ Len(couts) < 2
    /\ couts' = Append(couts, cleanText(IF couts = <<>> THEN craw ELSE couts[1]))
    /\ UNCHANGED <<progVars, validVars, craw, mergeVars, extractVars>>

NextClean == Clean

SpecClean == InitClean /\ [][NextClean]_vars

\* C11: the result of cleanText on a result of cleanText is that result.
C11_NormalizeIdempotent ==
    Len(couts) = 2 => couts[2] = couts[1]

----------------------------------------------------------------------------
(* Claims about the Query API *)

\* the entries of g whose lowercase term or lowercase definition has the
\* lowercase query lq as a substring
SearchHits(g, lq) ==
    LET hits == {t \in DOMAIN g : Occurs(lq, ToLower(t)) \/ Occurs(lq, ToLower(g[t]))}
    IN  [t \in hits |-> g[t]]

\* C12: the object a search answers with is made for the lowercase form of
\* a non-empty query and holds exactly the Glossary entries whose lowercase
\* term or lowercase definition contains it, each with its stored definition.
C12_SearchExact ==
    \A h \in Handlers : hpc[h] = "se_encode" =>
        /\ hkey[h] # <<>>
        /\ hkey[h] = ToLower(hkey[h])
        /\ hres[h] = SearchHits(globalTerms, hkey[h])

C12_Witness ==
    /\ hpc[1] = "se_encode"
    /\ hkey[1] = <<120>>
    /\ DOMAIN globalTerms = Terms
    /\ DOMAIN hres[1] = {TermGo}
    /\ hpc[2] = "se_encode"
    /\ hkey[2] = <<97, 112>>
    /\ DOMAIN hres[2] = {TermAPI}

\* C13: a search is answered 400 exactly for the empty query and never
\* searches with it; a lookup is answered 404 exactly when the path variable
\* is not a key of the Glossary, as written, and 200 with the stored
\* definition otherwise; an error answer leaves the Glossary as it is and
\* the server serving.
C13_ErrorsAreAnswers ==
    /\ [](\A h \in Handlers :
            /\ hpc[h] = "se_badreq" => hkey[h] = <<>>
            /\ hpc[h] \in {"se_lock", "se_scan", "se_encode"} => hkey[h] # <<>>
            /\ hpc[h] = "gt_notfound" =>
                   hkey[h] \notin DOMAIN globalTerms /\ hres[h] = EmptyMap
            /\ hpc[h] = "gt_found" =>
                   /\ hkey[h] \in DOMAIN globalTerms
                   /\ hres[h] = Put(EmptyMap, hkey[h], globalTerms[hkey[h]]))
    /\ [][\A h \in Handlers :
            hpc[h] \in {"se_badreq", "gt_notfound"} =>
                globalTerms' = globalTerms /\ mpc' = "serving"]_vars

C13_Witness ==
    /\ hpc[1] = "gt_notfound"
    /\ hkey[1] = <<97, 112, 105>>
    /\ TermAPI \in DOMAIN globalTerms
    /\ hpc[2] = "se_badreq"

----------------------------------------------------------------------------
(* Runs of the merge alone: one pair set merged twice into a Glossary *)

InitMerge ==
    /\ InitProg
    /\ InitValidIdle
    /\ InitCleanIdle
    /\ InitExtractIdle
    /\ rglossary \in PairSets
    /\ rpairs \in PairSets
    /\ rcount = 0
    /\ rfirst = EmptyMap

\* the merge loop of scrapeURL over rpairs, run under the lock
MergeRun ==
    /\ rcount < 2
    /\ rglossary' = MergeAll(rglossary, rpairs)
    /\ rfirst' = IF rcount = 0 THEN rglossary' ELSE rfirst
    /\ rcount' = rcount + 1
    /\ UNCHANGED <<progVars, validVars, cleanVars, rpairs, extractVars>>

NextMerge == MergeRun

SpecMerge == InitMerge /\ [][NextMerge]_vars

\* C14: after a pair set has been merged into a Glossary a second time, the
\* Glossary is what it was after the first time.
C14_MergeIdempotent ==
    rcount = 2 => rglossary = rfirst

C14_Witness ==
    /\ rcount = 2
    /\ DOMAIN rpairs = Terms
    /\ rglossary[TermAPI] = rpairs[TermAPI]
    /\ rglossary[TermGo] # rpairs[TermGo]
    /\ ByteLen(rglossary[TermGo]) = ByteLen(rpairs[TermGo])

----------------------------------------------------------------------------
(* Claims about the entries of the Glossary *)

\* the Term Entry invariant of a pair, lengths being len (bytes)
TermEntryOK(t, d) ==
    /\ ByteLen(t) >= 2
    /\ ByteLen(d) >= 10
    /\ ~(/\ Occurs(ToLower(ComparisonKey(t)), ToLower(d))
         /\ ByteLen(d) < ByteLen(ComparisonKey(t)) + 20)

\* C15: every entry of the Glossary, and every pair an extractor has handed
\* to its task, has a term of length >= 2, a definition of length >= 10 and
\* a definition that is not a near-restatement of the term.
C15_EntriesValid ==
    /\ \A t \in DOMAIN globalTerms : TermEntryOK(t, globalTerms[t])
    /\ \A i \in Sources : \A t \in DOMAIN terms[i] : TermEntryOK(t, terms[i][t])

C15_Witness ==
    /\ AllMerged
    /\ DOMAIN terms[1] = {TermAPI}
    /\ DOMAIN terms[2] = {TermGo}
    /\ DOMAIN globalTerms = Terms
    /\ ByteLen(globalTerms[TermGo]) = 10
    /\ Len(globalTerms[TermAPI]) = 5

\* C16: in every step, a term of the Glossary stays in it, and the length
\* (len) of its definition does not decrease.
C16_OnlyGrows ==
    [][\A t \in DOMAIN globalTerms :
          (t \in DOMAIN globalTerms' /\
           ByteLen(globalTerms'[t]) >= ByteLen(globalTerms[t]))]_vars

C16_Witness ==
    /\ tpc[1] = "ret"
    /\ tpc[2] = "merge"
    /\ todo[2] = {TermGo}
    /\ TermAPI \in DOMAIN terms[1] \cap DOMAIN terms[2]
    /\ ByteLen(terms[2][TermAPI]) > ByteLen(terms[1][TermAPI])
    /\ globalTerms[TermAPI] = terms[2][TermAPI]

----------------------------------------------------------------------------
(* Claims about the reads main makes without the mutex *)

\* the places of main from which it reads globalTerms: len(globalTerms) == 0,
\* json.MarshalIndent(globalTerms), and len(globalTerms) after the write
MainReads == {"check", "marshal", "write"}

\* C20: while main is at one of its reads of the Glossary, which take no
\* lock, every task has returned, no request has been started, nothing
\* holds the mutex, and the step taken does not change the Glossary.
C20_UnlockedReadsAlone ==
    /\ [](mpc \in MainReads =>
            /\ AllDone
            /\ \A h \in Handlers : hpc[h] = "idle"
            /\ MergingTasks = {}
            /\ ~mutex)
    /\ [][(mpc \in MainReads) => globalTerms' = globalTerms]_vars

C20_Witness ==
    /\ mpc = "marshal"
    /\ AllDone
    /\ DOMAIN globalTerms = Terms
    /\ ~Serving
    /\ writes = 0

----------------------------------------------------------------------------
(* Runs of scrapeWikipediaTerms alone, one child of a list per step *)

\* the tags a page is written with: <dl class="glossary"> opening a new
\* list, <dt>Go</dt>, <dt>API [1]</dt>, <dd>xxxxxxxxxx</dd> and
\* <dd>xxxxxxxxxx[1]</dd>
TagDl == [tag |-> "dl", text |-> <<>>]
TagDtGo == [tag |-> "dt", text |-> TermGo]
TagDtAPI == [tag |-> "dt", text |-> TermAPI \o <<32, 91, 49, 93>>]
TagDdPlain == [tag |-> "dd", text |-> Rep(120, 10)]
TagDdCited == [tag |-> "dd", text |-> Rep(120, 10) \o <<91, 49, 93>>]
Tags == {TagDl, TagDtGo, TagDtAPI, TagDdPlain, TagDdCited}

\* the lists doc.Find("dl.glossary") selects in a page, each with its
\* children; what stands before the first list is in none
RECURSIVE ListsOf(_)
ListsOf(page) ==
    IF page = <<>> THEN <<>>
    ELSE LET before == ListsOf(SubSeq(page, 1, Len(page) - 1))
             x == page[Len(page)]
         IN  IF x.tag = "dl" THEN Append(before, <<>>)
             ELSE IF before = <<>> THEN <<>>
             ELSE [before EXCEPT ![Len(before)] = Append(@, x)]

ExtractDocs == {ListsOf(page) : page \in SeqsUpTo(Tags, MaxDocLen)}

InitExtract ==
    /\ InitProg
    /\ InitValidIdle
    /\ InitCleanIdle
    /\ InitMergeIdle
    /\ edoc \in ExtractDocs
    /\ elist = 0
    /\ eelem = 0
    /\ currentTerm = <<>>
    /\ eterms = EmptyMap

\* variant of EnterList: currentTerm is kept from the list before
EnterListKeepTerm ==
    /\ elist < Len(edoc)
    /\ eelem = (IF elist = 0 THEN 0 ELSE Len(edoc[elist]))
    /\ elist' = elist + 1
    /\ eelem' = 0
    /\ UNCHANGED <<progVars, validVars, cleanVars, mergeVars, edoc, currentTerm, eterms>>

\* the outer callback starts on the next list: var currentTerm string
EnterList ==
    /\ elist < Len(edoc)
    /\ eelem = (IF elist = 0 THEN 0 ELSE Len(edoc[elist]))
    /\ elist' = elist + 1
    /\ eelem' = 0
    /\ currentTerm' = <<>>
    /\ UNCHANGED <<progVars, validVars, cleanVars, mergeVars, edoc, eterms>>

\* the inner callback on the next child of the list
VisitChild ==
    /\ elist >= 1
    /\ eelem < Len(edoc[elist])
    /\ LET st == WikiElement([cur |-> currentTerm, terms |-> eterms],
                             edoc[elist][eelem + 1])
       IN  currentTerm' = st.cur /\ eterms' = st.terms
    /\ eelem' = eelem + 1
    /\ UNCHANGED <<progVars, validVars, cleanVars, mergeVars, edoc, elist>>

NextExtract == EnterList \/ VisitChild

SpecExtract == InitExtract /\ [][NextExtract]_vars

\* the children of list l the run has visited
Visited(l) == IF l < elist THEN Len(edoc[l]) ELSE eelem

\* the definition bodies visited, as <<list, child>>
Bodies ==
    {b \in UNION {{<<l, j>> : j \in 1..Visited(l)} : l \in 1..elist} :
        edoc[b[1]][b[2]].tag = "dd"}

\* the term headings visited
Headings ==
    {b \in UNION {{<<l, j>> : j \in 1..Visited(l)} : l \in 1..elist} :
        edoc[b[1]][b[2]].tag = "dt"}

\* the normalized text up to its first "[", or all of it
CitationFree(text) ==
    LET n == cleanText(text)
        at == {i \in 1..Len(n) : n[i] = 91}
    IN  IF at = {} THEN n
        ELSE [k \in 1..((CHOOSE i \in at : \A j \in at : i <= j) - 1) |-> n[k]]

\* C17: every emitted term is part of what stands before the first "[" in
\* the normalized text of a term heading, and every emitted definition is
\* part of what stands before the first "[" in the normalized text of a
\* definition body.
C17_CitationsStripped ==
    \A t \in DOMAIN eterms :
        /\ \E b \in Headings : Occurs(t, CitationFree(edoc[b[1]][b[2]].text))
        /\ \E b \in Bodies : Occurs(eterms[t], CitationFree(edoc[b[1]][b[2]].text))

\* the normalized term of the last heading among the first n children of a
\* list, empty if there is none
LastHeading(list, n) ==
    LET dts == {j \in 1..n : list[j].tag = "dt"}
    IN  IF dts = {} THEN <<>>
        ELSE WikiTerm(list[CHOOSE j \in dts : \A k \in dts : k <= j].text)

\* C18: the current term is that of the last heading visited in the list
\* being processed, empty if there is none; every emitted pair is a visited
\* body with the last heading before it in its own list; and every visited
\* body whose pair with that heading is valid has its heading emitted.
C18_PairedWithinList ==
    /\ elist >= 1 => currentTerm = LastHeading(edoc[elist], eelem)
    /\ \A t \in DOMAIN eterms : \E b \in Bodies :
           /\ t # <<>>
           /\ t = LastHeading(edoc[b[1]], b[2])
           /\ eterms[t] = WikiDef(edoc[b[1]][b[2]].text)
    /\ \A b \in Bodies :
           LET h == LastHeading(edoc[b[1]], b[2])
           IN  (h # <<>> /\ isValidTerm(h, WikiDef(edoc[b[1]][b[2]].text)))
                   => h \in DOMAIN eterms

C18_Witness ==
    /\ edoc = <<(<<TagDtGo, TagDdPlain>>), (<<TagDdCited>>)>>
    /\ elist = 2
    /\ eelem = 1
    /\ currentTerm = <<>>
    /\ DOMAIN eterms = {TermGo}
    /\ eterms[TermGo] = Rep(120, 10)

----------------------------------------------------------------------------
(* Claims about the end of the tasks and the join *)

\* C19: a task is done exactly when it has called wg.Done() once, which it
\* does in the step that leaves the function, whatever the path (failed
\* request, failed transport, bad status, failed parse, or merge), and the
\* counter is the number of tasks launched and not done; the mutex is
\* locked only while a task or request is still inside its locked section;
\* and under a fair scheduler main gets past wg.Wait(), a task waiting for
\* the mutex gets it, and a locked mutex is unlocked again, so that no
\* request waits for a holder that never releases.
C19_DoneOnceAndJoinReturns ==
    /\ [](\A i \in Sources :
            /\ dones[i] <= 1
            /\ tpc[i] = "done" <=> dones[i] = 1)
    /\ [](wg = Cardinality({i \in Sources : launched[i] = 1 /\ dones[i] = 0}))
    /\ [](mutex => (MergingTasks # {} \/ ReadingRequests # {}))
    /\ [][\A i \in Sources :
            /\ (tpc'[i] = "done") => (tpc[i] \in {"ret", "done"})
            /\ (tpc[i] = "ret" /\ tpc'[i] # "ret") =>
                   (tpc'[i] = "done" /\ dones'[i] = dones[i] + 1 /\ wg' = wg - 1)]_vars
    /\ <>(mpc \notin Joining)
    /\ \A i \in Sources : (tpc[i] = "lock") ~> (tpc[i] = "merge")
    /\ mutex ~> ~mutex

C19_Witness ==
    /\ mpc = "wait"
    /\ tpc[1] = "ret"
    /\ outcome[1] = "parse"
    /\ tpc[2] = "done"
    /\ dones[2] = 1
    /\ wg = 1
    /\ globalTerms # EmptyMap
    /\ ~mutex

====
